---- MODULE Spec2Model ----
(***************************************************************************)
(* Dominatro: the board-chain placement engine (Board.ts), the tile pool   *)
(* and the player rack (GameState.ts).                                     *)
(*                                                                         *)
(* Tiles are records [id, left, right, type].  The field id stands for the *)
(* JavaScript object identity of a DominoData object: the tiles generated  *)
(* by initializeBonePile carry their position in the generated pile, and   *)
(* every object created later by a spread copy ({...data, left, right} in  *)
(* Scene.flipSelectedDomino) carries FreshId, which no rack object has.    *)
(* Chain entries are the copies { left, right, type } the board pushes;    *)
(* their field src is a history field, never read by the modelled code,    *)
(* recording the identity of the object the copy was made from.            *)
(* The variable board is GameState.board, the array playTileFromRack       *)
(* pushes onto; chain, openEnds, rootIndex, chainDominoes are Board fields. *)
(* Lengths are in tenths of a world unit.                                  *)
(***************************************************************************)
EXTENDS Integers, Sequences, FiniteSets, TLC

VARIABLES bonePile, playerRack, board, score, pullsRemaining, chain, openEnds, rootIndex, chainDominoes, scene, last

vars == <<bonePile, playerRack, board, score, pullsRemaining, chain, openEnds, rootIndex, chainDominoes, scene, last>>

(***************************************************************************)
(* Bounds of the model.                                                    *)
(***************************************************************************)
\* highest pip of the standard tiles (6 in the program)
MaxPip == 1
\* how many of the special tiles, in generation order, are generated (10 in the program)
NumSpecial == 6
\* tiles dealt by Game.initializeGame (7 in the program)
HandSize == 3
\* Fisher-Yates iterations of Game.initializeGame whose draw is free
ShuffleDepth == 2
\* pool of the tile-pool specification: highest standard pip, special tiles, largest deal
PoolMaxPip == 0
PoolSpecial == 3
MaxDeal == 2
\* largest bone pile the tile-pool specification shuffles
MaxShufflePile == 4
\* tiles dealt at the start of the game with the placement preview
PreviewHand == 2
\* highest score the score-keeping specification lets addScore reach
MaxScore == 1

(***************************************************************************)
(* Program constants.                                                      *)
(***************************************************************************)
SPECIAL_TILE_PIP_VALUE == -1
\* the value null of OpenEnds.left / OpenEnds.right
NullPip == -2
\* the initial value of Board.rootIndex
NoRoot == -1
DOUBLE_HALF_WIDTH == 5
REGULAR_HALF_WIDTH == 11
DOMINO_GAP == 1
FreshId == 0
\* a JavaScript number that need not be whole (a count, a rack index) is held
\* in units of 1/Scale: with Scale 2, the value 3 stands for 1.5
Scale == 2
Num(n) == Scale * n
isInteger(x) == x % Scale = 0

DominoType ==
  {"standard", "wild", "doubler", "odd-favor", "spinner", "crusher", "cheater",
   "thief", "blank-slate"}

WILDCARD_TYPES == {"wild", "crusher", "cheater", "spinner"}

isWildcardType(type) == type \in WILDCARD_TYPES

PlacementSide == {"left", "right", "center"}

validSides == {"left", "right"}

(***************************************************************************)
(* GameState.initializeBonePile                                            *)
(***************************************************************************)
SpecialTypes ==
  <<"wild", "wild", "doubler", "doubler", "odd-favor",
    "spinner", "crusher", "cheater", "thief", "blank-slate">>

RECURSIVE StandardPips(_, _, _)
\* the pairs pushed by the nested loops, from (left, right) on
StandardPips(left, right, maxPip) ==
  IF left > maxPip THEN <<>>
  ELSE IF right > maxPip THEN StandardPips(left + 1, left + 1, maxPip)
  ELSE <<[left |-> left, right |-> right, type |-> "standard"]>>
         \o StandardPips(left, right + 1, maxPip)

SpecialPips(numSpecial) ==
  [k \in 1..numSpecial |->
     [left |-> SPECIAL_TILE_PIP_VALUE, right |-> SPECIAL_TILE_PIP_VALUE,
      type |-> SpecialTypes[k]]]

initializeBonePile(maxPip, numSpecial) ==
  LET pips == StandardPips(0, 0, maxPip) \o SpecialPips(numSpecial)
  IN  [k \in 1..Len(pips) |->
         [id |-> k, left |-> pips[k].left, right |-> pips[k].right,
          type |-> pips[k].type]]

(***************************************************************************)
(* GameState.shuffle: Fisher-Yates.  draws[i] is the index (1-based) the   *)
(* random source yields in the iteration for position i; an iteration that *)
(* has no entry in draws leaves position i where it is (the draw is i).    *)
(***************************************************************************)
\* variant: the swap writes position i only
Swap_OneWay(pile, i, j) == [pile EXCEPT ![i] = pile[j]]

Swap(pile, i, j) == [pile EXCEPT ![i] = pile[j], ![j] = pile[i]]

RECURSIVE ShuffleFrom(_, _, _)
ShuffleFrom(pile, i, draws) ==
  IF i < 2 THEN pile
  ELSE ShuffleFrom(Swap(pile, i, IF i \in DOMAIN draws THEN draws[i] ELSE i),
                   i - 1, draws)

shuffle(pile, draws) == ShuffleFrom(pile, Len(pile), draws)

RECURSIVE DrawSet(_, _)
\* every assignment of a draw in 1..i to the iterations i in lo..hi
DrawSet(lo, hi) ==
  IF lo > hi THEN {<<>>}
  ELSE {d @@ (hi :> j) : d \in DrawSet(lo, hi - 1), j \in 1..hi}

\* the draw sequences for a pile of n tiles whose first `depth` iterations
\* (positions n, n-1, ...) are free
Draws(n, depth) ==
  DrawSet(IF n - depth + 1 < 2 THEN 2 ELSE n - depth + 1, n)

(***************************************************************************)
(* GameState.dealToRack                                                    *)
(***************************************************************************)
\* variant: the tile is taken from the front of the pile
pop_Shift(pile) == [tile |-> pile[1], rest |-> Tail(pile)]

\* Array.pop on a non-empty array
pop(pile) ==
  [tile |-> pile[Len(pile)], rest |-> SubSeq(pile, 1, Len(pile) - 1)]

RECURSIVE dealToRack(_, _, _, _)
\* the loop: result is [pile, rack, dealt].  `count` is a JavaScript number,
\* held in units of 1/Scale; it stands here for count - i, so the test
\* i < count reads count > 0 and i++ takes one whole (Scale units) off it
dealToRack(pile, rack, dealt, count) ==
  IF count > 0 /\ Len(pile) > 0
  THEN LET popped == pop(pile)
       IN  dealToRack(popped.rest, Append(rack, popped.tile),
                      Append(dealt, popped.tile), count - Scale)
  ELSE [pile |-> pile, rack |-> rack, dealt |-> dealt]

(***************************************************************************)
(* GameState.removeDominoFromRack                                          *)
(***************************************************************************)
\* variant: the rack entry is looked up by pip values, in either orientation
indexOf_ByPips(rack, domino) ==
  LET same(t) == \/ (t.left = domino.left /\ t.right = domino.right)
                 \/ (t.left = domino.right /\ t.right = domino.left)
  IN  IF \E i \in 1..Len(rack) : same(rack[i])
      THEN CHOOSE i \in 1..Len(rack) :
             same(rack[i]) /\ \A k \in 1..(i - 1) : ~same(rack[k])
      ELSE 0

\* Array.indexOf on object references; 0 when absent (-1 in the program)
indexOf(rack, domino) ==
  IF \E i \in 1..Len(rack) : rack[i].id = domino.id
  THEN CHOOSE i \in 1..Len(rack) :
         /\ rack[i].id = domino.id
         /\ \A k \in 1..(i - 1) : rack[k].id # domino.id
  ELSE 0

splice(seq, index) ==
  SubSeq(seq, 1, index - 1) \o SubSeq(seq, index + 1, Len(seq))

\* result is [removed, rack]
removeDominoFromRack(rack, domino) ==
  LET index == indexOf(rack, domino)
  IN  IF index > 0
      THEN [removed |-> TRUE, rack |-> splice(rack, index)]
      ELSE [removed |-> FALSE, rack |-> rack]

(***************************************************************************)
(* Board.isValidPlacement                                                  *)
(***************************************************************************)
\* variant: every tile that is not standard matches any open end
isValidPlacement_SpecialIsWild(dominoData, side) ==
  IF side \notin validSides THEN FALSE
  ELSE IF Len(chain) = 0 THEN TRUE
  ELSE LET openEnd == IF side = "left" THEN openEnds.left ELSE openEnds.right
           isWild == dominoData.type # "standard"
       IN  isWild \/ dominoData.left = openEnd \/ dominoData.right = openEnd

\* variant: an open end left by a special tile accepts every tile
isValidPlacement_WildEndOpen(dominoData, side) ==
  IF side \notin validSides THEN FALSE
  ELSE IF Len(chain) = 0 THEN TRUE
  ELSE LET openEnd == IF side = "left" THEN openEnds.left ELSE openEnds.right
           isWild == dominoData.type = "wild"
       IN  \/ isWild
           \/ openEnd = SPECIAL_TILE_PIP_VALUE
           \/ dominoData.left = openEnd
           \/ dominoData.right = openEnd

\* variant: only the left pip is compared with the open end
isValidPlacement_LeftPipOnly(dominoData, side) ==
  IF side \notin validSides THEN FALSE
  ELSE IF Len(chain) = 0 THEN TRUE
  ELSE LET openEnd == IF side = "left" THEN openEnds.left ELSE openEnds.right
       IN  dominoData.type = "wild" \/ dominoData.left = openEnd

\* variant: the side is not tested; any side but left is read as right
isValidPlacement_SideNotTested(dominoData, side) ==
  IF Len(chain) = 0 THEN TRUE
  ELSE LET openEnd == IF side = "left" THEN openEnds.left ELSE openEnds.right
           isWild == dominoData.type = "wild"
       IN  isWild \/ dominoData.left = openEnd \/ dominoData.right = openEnd

\* lines 46-72
isValidPlacement(dominoData, side) ==
  IF side \notin validSides THEN FALSE
  ELSE IF Len(chain) = 0 THEN TRUE
  ELSE LET openEnd == IF side = "left" THEN openEnds.left ELSE openEnds.right
           isWild == dominoData.type = "wild"
       IN  isWild \/ dominoData.left = openEnd \/ dominoData.right = openEnd

(***************************************************************************)
(* Board.getPlacementOrientation                                           *)
(***************************************************************************)
\* variant: the right side tests the left pip against the open end
getPlacementOrientation_LeftPipOnRight(dominoData, side) ==
  LET left == dominoData.left
      right == dominoData.right
  IN  IF Len(chain) = 0
      THEN [left |-> left, right |-> right, type |-> dominoData.type]
      ELSE IF side = "left"
      THEN IF left = openEnds.left
           THEN [left |-> right, right |-> left, type |-> dominoData.type]
           ELSE [left |-> left, right |-> right, type |-> dominoData.type]
      ELSE IF left = openEnds.right
           THEN [left |-> right, right |-> left, type |-> dominoData.type]
           ELSE [left |-> left, right |-> right, type |-> dominoData.type]

\* lines 190-212: no field of the board is assigned
getPlacementOrientation(dominoData, side) ==
  LET left == dominoData.left
      right == dominoData.right
  IN  IF Len(chain) = 0
      THEN [left |-> left, right |-> right, type |-> dominoData.type]
      ELSE IF side = "left"
      THEN IF left = openEnds.left
           THEN [left |-> right, right |-> left, type |-> dominoData.type]
           ELSE [left |-> left, right |-> right, type |-> dominoData.type]
      ELSE IF right = openEnds.right
           THEN [left |-> right, right |-> left, type |-> dominoData.type]
           ELSE [left |-> left, right |-> right, type |-> dominoData.type]

(***************************************************************************)
(* Board.calculateChainPositions                                           *)
(***************************************************************************)
isDouble(d) == d.left = d.right

halfWidth(d) == IF isDouble(d) THEN DOUBLE_HALF_WIDTH ELSE REGULAR_HALF_WIDTH

RECURSIVE rightWalk(_, _, _, _)
\* the first loop: i runs from rootIndex + 1 up (i is 1-based here)
rightWalk(ch, positions, i, currentX) ==
  IF i > Len(ch) THEN positions
  ELSE LET x == currentX + halfWidth(ch[i - 1]) + halfWidth(ch[i]) + DOMINO_GAP
       IN  rightWalk(ch, [positions EXCEPT ![i] = x], i + 1, x)

RECURSIVE leftWalk(_, _, _, _)
\* the second loop: i runs from rootIndex - 1 down to the first tile
leftWalk(ch, positions, i, currentX) ==
  IF i < 1 THEN positions
  ELSE LET x == currentX - (halfWidth(ch[i + 1]) + halfWidth(ch[i]) + DOMINO_GAP)
       IN  leftWalk(ch, [positions EXCEPT ![i] = x], i - 1, x)

\* variant: the walk is anchored at the first chain tile instead of the root
calculateChainPositions_AnchorFirst(ch, root) ==
  IF Len(ch) = 0 THEN <<>>
  ELSE rightWalk(ch, [k \in 1..Len(ch) |-> IF k = 1 THEN 0 ELSE NullPip], 2, 0)

\* an array slot that was never written reads as undefined: NullPip here
calculateChainPositions(ch, root) ==
  IF Len(ch) = 0 THEN <<>>
  ELSE LET start == [k \in 1..Len(ch) |-> IF k = root + 1 THEN 0 ELSE NullPip]
       IN  leftWalk(ch, rightWalk(ch, start, root + 2, 0), root, 0)

(***************************************************************************)
(* Board.getPlacementPositions: result is [leftX, rightX]                  *)
(***************************************************************************)
\* the clearance 1.4 of lines 236-237
PLACEMENT_CLEARANCE == 14

getPlacementPositions(ch, root) ==
  IF Len(ch) = 0 THEN [leftX |-> 0, rightX |-> 0]
  ELSE LET positions == calculateChainPositions(ch, root)
           leftmostPos == positions[1]
           rightmostPos == positions[Len(ch)]
           leftmostDomino == ch[1]
           rightmostDomino == ch[Len(ch)]
           leftIsDouble == leftmostDomino.left = leftmostDomino.right
           rightIsDouble == rightmostDomino.left = rightmostDomino.right
           leftHalfWidth == IF leftIsDouble THEN DOUBLE_HALF_WIDTH
                            ELSE REGULAR_HALF_WIDTH
           rightHalfWidth == IF rightIsDouble THEN DOUBLE_HALF_WIDTH
                             ELSE REGULAR_HALF_WIDTH
       IN  [leftX |-> leftmostPos - leftHalfWidth - PLACEMENT_CLEARANCE,
            rightX |-> rightmostPos + rightHalfWidth + PLACEMENT_CLEARANCE]

(***************************************************************************)
(* Game.updatePlacementZones, lines 146-149: the test for a double that    *)
(* leaves out the tiles whose pips are the special value                   *)
(***************************************************************************)
isDoubleTile(dominoData) ==
  dominoData.left = dominoData.right /\ dominoData.left # SPECIAL_TILE_PIP_VALUE

(***************************************************************************)
(* Board.renderChain: one visual domino per chain entry                    *)
(***************************************************************************)
renderChain(ch, root) ==
  LET positions == calculateChainPositions(ch, root)
  IN  [k \in 1..Len(ch) |->
         [left |-> ch[k].left, right |-> ch[k].right, type |-> ch[k].type,
          x |-> positions[k], rotated |-> ~isDouble(ch[k])]]

(***************************************************************************)
(* Board.placeDomino                                                       *)
(***************************************************************************)
\* the chain entry pushed for dominoData with the pips (l, r)
chainEntry(dominoData, l, r) ==
  [left |-> l, right |-> r, type |-> dominoData.type, src |-> dominoData.id]

\* variant: the tile is never reoriented
applyPlacement_NoSwap(dominoData, side) ==
  LET e == chainEntry(dominoData, dominoData.left, dominoData.right)
  IN  IF Len(chain) = 0
      THEN [chain |-> <<e>>, rootIndex |-> 0,
            openEnds |-> [left |-> e.left, right |-> e.right]]
      ELSE IF side = "left"
      THEN [chain |-> <<e>> \o chain, rootIndex |-> rootIndex + 1,
            openEnds |-> [openEnds EXCEPT !.left = e.left]]
      ELSE [chain |-> Append(chain, e), rootIndex |-> rootIndex,
            openEnds |-> [openEnds EXCEPT !.right = e.right]]

\* variant: a left placement does not shift the root index
applyPlacement_RootNotShifted(dominoData, side) ==
  LET left == dominoData.left
      right == dominoData.right
  IN  IF Len(chain) = 0
      THEN [chain |-> <<chainEntry(dominoData, left, right)>>,
            rootIndex |-> 0,
            openEnds |-> [left |-> left, right |-> right]]
      ELSE IF side = "left"
      THEN LET swap == left = openEnds.left
               l == IF swap THEN right ELSE left
               r == IF swap THEN left ELSE right
           IN  [chain |-> <<chainEntry(dominoData, l, r)>> \o chain,
                rootIndex |-> rootIndex,
                openEnds |-> [openEnds EXCEPT !.left = l]]
      ELSE LET swap == right = openEnds.right
               l == IF swap THEN right ELSE left
               r == IF swap THEN left ELSE right
           IN  [chain |-> Append(chain, chainEntry(dominoData, l, r)),
                rootIndex |-> rootIndex,
                openEnds |-> [openEnds EXCEPT !.right = r]]

\* variant: a left placement is pushed at the end of the chain
applyPlacement_LeftPushed(dominoData, side) ==
  LET left == dominoData.left
      right == dominoData.right
  IN  IF Len(chain) = 0
      THEN [chain |-> <<chainEntry(dominoData, left, right)>>,
            rootIndex |-> 0,
            openEnds |-> [left |-> left, right |-> right]]
      ELSE IF side = "left"
      THEN LET swap == left = openEnds.left
               l == IF swap THEN right ELSE left
               r == IF swap THEN left ELSE right
           IN  [chain |-> Append(chain, chainEntry(dominoData, l, r)),
                rootIndex |-> rootIndex + 1,
                openEnds |-> [openEnds EXCEPT !.left = l]]
      ELSE LET swap == right = openEnds.right
               l == IF swap THEN right ELSE left
               r == IF swap THEN left ELSE right
           IN  [chain |-> Append(chain, chainEntry(dominoData, l, r)),
                rootIndex |-> rootIndex,
                openEnds |-> [openEnds EXCEPT !.right = r]]

\* lines 95-117: the chain mutation; result is [chain, openEnds, rootIndex]
applyPlacement(dominoData, side) ==
  LET left == dominoData.left
      right == dominoData.right
      entry(l, r) == chainEntry(dominoData, l, r)
  IN  IF Len(chain) = 0
      THEN [chain |-> <<entry(left, right)>>,
            rootIndex |-> 0,
            openEnds |-> [left |-> left, right |-> right]]
      ELSE IF side = "left"
      THEN LET swap == left = openEnds.left
               l == IF swap THEN right ELSE left
               r == IF swap THEN left ELSE right
           IN  [chain |-> <<entry(l, r)>> \o chain,
                rootIndex |-> rootIndex + 1,
                openEnds |-> [openEnds EXCEPT !.left = l]]
      ELSE LET swap == right = openEnds.right
               l == IF swap THEN right ELSE left
               r == IF swap THEN left ELSE right
           IN  [chain |-> Append(chain, entry(l, r)),
                rootIndex |-> rootIndex,
                openEnds |-> [openEnds EXCEPT !.right = r]]

\* variant: the end is read before the added tile is taken off
rollbackPlacementJs_EndReadFirst(mutated, side) ==
  IF Len(mutated.chain) = 1
  THEN [chain |-> <<>>, openEnds |-> [left |-> NullPip, right |-> NullPip]]
  ELSE IF side = "left"
  THEN [chain |-> Tail(mutated.chain),
        openEnds |-> [mutated.openEnds EXCEPT !.left = mutated.chain[1].left]]
  ELSE [chain |-> SubSeq(mutated.chain, 1, Len(mutated.chain) - 1),
        openEnds |-> [mutated.openEnds EXCEPT
                        !.right = mutated.chain[Len(mutated.chain)].right]]

\* Board.js lines 101-111: undo of the mutation from the chain that remains;
\* result is [chain, openEnds] (this Board has no rootIndex)
rollbackPlacementJs(mutated, side) ==
  IF Len(mutated.chain) = 1
  THEN [chain |-> <<>>, openEnds |-> [left |-> NullPip, right |-> NullPip]]
  ELSE IF side = "left"
  THEN LET rest == Tail(mutated.chain)
       IN  [chain |-> rest,
            openEnds |-> [mutated.openEnds EXCEPT !.left = rest[1].left]]
  ELSE LET rest == SubSeq(mutated.chain, 1, Len(mutated.chain) - 1)
       IN  [chain |-> rest,
            openEnds |-> [mutated.openEnds EXCEPT !.right = rest[Len(rest)].right]]

\* variant: the open ends are left as the mutation set them
rollbackPlacement_EndsKept(mutated, side, previousOpenEnds, previousChainLength, previousRootIndex) ==
  [openEnds |-> mutated.openEnds,
   rootIndex |-> previousRootIndex,
   chain |-> IF previousChainLength = 0 THEN <<>>
             ELSE IF side = "left" THEN Tail(mutated.chain)
             ELSE SubSeq(mutated.chain, 1, Len(mutated.chain) - 1)]

\* variant: the added tile is always taken off the right end
rollbackPlacement_AlwaysPop(mutated, side, previousOpenEnds, previousChainLength, previousRootIndex) ==
  [openEnds |-> previousOpenEnds,
   rootIndex |-> previousRootIndex,
   chain |-> IF previousChainLength = 0 THEN <<>>
             ELSE SubSeq(mutated.chain, 1, Len(mutated.chain) - 1)]

\* lines 124-132: undo of the mutation from the values saved in lines 91-93
rollbackPlacement(mutated, side, previousOpenEnds, previousChainLength, previousRootIndex) ==
  [openEnds |-> previousOpenEnds,
   rootIndex |-> previousRootIndex,
   chain |-> IF previousChainLength = 0 THEN <<>>
             ELSE IF side = "left" THEN Tail(mutated.chain)
             ELSE SubSeq(mutated.chain, 1, Len(mutated.chain) - 1)]

\* what `last` holds for the tile of a call that takes no tile
NoTile == [id |-> FreshId, left |-> NullPip, right |-> NullPip, type |-> "none"]

\* variant: only the side is checked
placementRejected_SideOnly(dominoData, side) == side \notin validSides

\* lines 78-89: the two early returns
placementRejected(dominoData, side) ==
  side \notin validSides \/ ~isValidPlacement(dominoData, side)

\* `last` is a history variable: the last call, its arguments and its result
placeDomino(dominoData, side) ==
  IF placementRejected(dominoData, side)
  THEN /\ last' = [op |-> "placeDomino", outcome |-> "rejected",
                   tile |-> dominoData, side |-> side, ret |-> FALSE]
       /\ UNCHANGED <<score, pullsRemaining, bonePile, playerRack, board, chain, openEnds, rootIndex,
                      chainDominoes>>
  ELSE LET previousOpenEnds == openEnds
           previousChainLength == Len(chain)
           previousRootIndex == rootIndex
           mutated == applyPlacement(dominoData, side)
           removal == removeDominoFromRack(playerRack, dominoData)
       IN  IF ~removal.removed
           THEN LET back == rollbackPlacement(mutated, side, previousOpenEnds,
                              previousChainLength, previousRootIndex)
                IN  /\ chain' = back.chain
                    /\ openEnds' = back.openEnds
                    /\ rootIndex' = back.rootIndex
                    /\ playerRack' = removal.rack
                    /\ last' = [op |-> "placeDomino", outcome |-> "rolledback",
                                tile |-> dominoData, side |-> side,
                                ret |-> FALSE]
                    /\ UNCHANGED <<score, pullsRemaining, bonePile, board, chainDominoes>>
           ELSE /\ chain' = mutated.chain
                /\ openEnds' = mutated.openEnds
                /\ rootIndex' = mutated.rootIndex
                /\ playerRack' = removal.rack
                /\ chainDominoes' = renderChain(mutated.chain, mutated.rootIndex)
                /\ last' = [op |-> "placeDomino", outcome |-> "placed",
                            tile |-> dominoData, side |-> side, ret |-> TRUE]
                /\ UNCHANGED <<score, pullsRemaining, bonePile, board>>

(***************************************************************************)
(* The DominoData objects a caller can hand to placeDomino: an object of   *)
(* the rack (Scene.selectDomino passes dominoObj.data) or the spread copy  *)
(* Scene.flipSelectedDomino makes of it, after one flip or after two.      *)
(***************************************************************************)
flipCopy(d) == [id |-> FreshId, left |-> d.right, right |-> d.left, type |-> d.type]

PlaceInputs ==
  LET rackObjects == {playerRack[i] : i \in 1..Len(playerRack)}
  IN  rackObjects \cup {flipCopy(d) : d \in rackObjects}
                  \cup {flipCopy(flipCopy(d)) : d \in rackObjects}

PlaceDomino ==
  \E dominoData \in PlaceInputs, side \in PlacementSide :
    /\ placeDomino(dominoData, side)
    /\ UNCHANGED scene

(***************************************************************************)
(* Board.clear                                                             *)
(***************************************************************************)
\* variant: the open ends are not reset
Clear_EndsKept ==
  /\ chainDominoes' = <<>>
  /\ chain' = <<>>
  /\ rootIndex' = NoRoot
  /\ last' = [op |-> "clear", outcome |-> "cleared", tile |-> NoTile,
              side |-> "none", ret |-> FALSE]
  /\ UNCHANGED <<scene, score, pullsRemaining, bonePile, playerRack, board, openEnds>>

Clear ==
  /\ chainDominoes' = <<>>
  /\ chain' = <<>>
  /\ rootIndex' = NoRoot
  /\ openEnds' = [left |-> NullPip, right |-> NullPip]
  /\ last' = [op |-> "clear", outcome |-> "cleared", tile |-> NoTile,
              side |-> "none", ret |-> FALSE]
  /\ UNCHANGED <<scene, score, pullsRemaining, bonePile, playerRack, board>>

(***************************************************************************)
(* The Scene object, held in the variable scene as a record of its fields. *)
(* A mesh is known by the id of the rack tile it was built for (NoMesh is  *)
(* null); selectedDominoData and ghostDomino are null as NoTile/NoGhost.   *)
(* hoveredZone keeps the zone object it points to and, in `live`, whether  *)
(* that object is one of the current placementZones: clearPlacementZones   *)
(* drops every zone object and the zones made afterwards are new objects.  *)
(* hoveredObject and the highlights only colour meshes and are left out.   *)
(***************************************************************************)
NoMesh == 0

NoGhost == [left |-> NullPip, right |-> NullPip, type |-> "none"]

NoZone == [side |-> "none", isValid |-> FALSE, dominoData |-> NoTile]

NoHover == [zone |-> NoZone, live |-> FALSE]

\* the field initialisers of Scene.ts lines 37-46
NewScene ==
  [selectedDomino |-> NoMesh, selectedDominoData |-> NoTile,
   selectedDominoFlipped |-> FALSE, hoveredZone |-> NoHover,
   ghostDomino |-> NoGhost, rackDominoes |-> <<>>, placementZones |-> <<>>]

\* Game.setupRack: one visual rack entry per rack tile, in rack order
setupRack(rack) ==
  [i \in 1..Len(rack) |-> [mesh |-> rack[i].id, data |-> rack[i]]]

\* pullsRemaining: number = 5
InitialPulls == 5

(***************************************************************************)
(* The game: new Game() builds the GameState (initializeBonePile), the     *)
(* empty Board, and runs Game.initializeGame: shuffle, then dealToRack.    *)
(* The specifications of the board and of the pool call the Board and the  *)
(* GameState directly and leave the Scene as it was constructed; the       *)
(* Scene with its visual rack takes part in SpecGame and SpecJs.           *)
(***************************************************************************)
InitialBonePile == initializeBonePile(MaxPip, NumSpecial)

NoCall ==
  [op |-> "none", outcome |-> "none", tile |-> NoTile, side |-> "none",
   ret |-> FALSE]

EmptyBoard ==
  /\ chain = <<>>
  /\ chainDominoes = <<>>
  /\ openEnds = [left |-> NullPip, right |-> NullPip]
  /\ rootIndex = NoRoot
  /\ last = NoCall

Init ==
  /\ EmptyBoard
  /\ board = <<>>
  /\ score = 0
  /\ pullsRemaining = InitialPulls
  /\ \E draws \in Draws(Len(InitialBonePile), ShuffleDepth) :
       LET dealt == dealToRack(shuffle(InitialBonePile, draws), <<>>, <<>>,
                               Num(HandSize))
       IN  /\ bonePile = dealt.pile
           /\ playerRack = dealt.rack
           /\ scene = NewScene

Next == PlaceDomino \/ Clear

Spec == Init /\ [][Next]_vars

(***************************************************************************)
(* The tile pool on its own: a newly constructed GameState and Board, and  *)
(* any sequence of shuffle, dealToRack and placeDomino.                    *)
(***************************************************************************)
PoolBonePile == initializeBonePile(PoolMaxPip, PoolSpecial)

Shuffle ==
  /\ Len(bonePile) <= MaxShufflePile
  /\ \E draws \in Draws(Len(bonePile), Len(bonePile)) :
       bonePile' = shuffle(bonePile, draws)
  /\ last' = [op |-> "shuffle", outcome |-> "shuffled", tile |-> NoTile,
              side |-> "none", ret |-> FALSE]
  /\ UNCHANGED <<scene, score, pullsRemaining, playerRack, board, chain, openEnds, rootIndex, chainDominoes>>

\* the numbers a caller may hand in as a count: -1, -0.5, 0, 0.5, ..., MaxDeal + 0.5
DealCounts == (0 - Scale)..(Num(MaxDeal) + 1)

\* `last.count` is the argument, `last.ret` the array returned
DealToRack ==
  \E count \in DealCounts :
    LET dealt == dealToRack(bonePile, playerRack, <<>>, count)
    IN  /\ bonePile' = dealt.pile
        /\ playerRack' = dealt.rack
        /\ last' = [op |-> "dealToRack", outcome |-> "dealt", tile |-> NoTile,
                    side |-> "none", count |-> count, ret |-> dealt.dealt]
        /\ UNCHANGED <<scene, score, pullsRemaining, board, chain, openEnds, rootIndex, chainDominoes>>

(***************************************************************************)
(* Board.dealTilesToRack: the argument check, then GameState.dealToRack.   *)
(* The two HUD updates only redraw counters.                               *)
(***************************************************************************)
dealTilesToRack(count) ==
  IF count < 0 \/ ~isInteger(count)
  THEN /\ last' = [op |-> "dealTilesToRack", outcome |-> "threw",
                   tile |-> NoTile, side |-> "none", count |-> count,
                   ret |-> <<>>]
       /\ UNCHANGED <<scene, score, pullsRemaining, bonePile, playerRack, board, chain, openEnds, rootIndex,
                      chainDominoes>>
  ELSE LET dealt == dealToRack(bonePile, playerRack, <<>>, count)
       IN  /\ bonePile' = dealt.pile
           /\ playerRack' = dealt.rack
           /\ last' = [op |-> "dealTilesToRack", outcome |-> "dealt",
                       tile |-> NoTile, side |-> "none", count |-> count,
                       ret |-> dealt.dealt]
           /\ UNCHANGED <<scene, score, pullsRemaining, board, chain, openEnds, rootIndex, chainDominoes>>

DealTilesToRack == \E count \in DealCounts : dealTilesToRack(count)

InitPool ==
  /\ EmptyBoard
  /\ board = <<>>
  /\ score = 0
  /\ pullsRemaining = InitialPulls
  /\ bonePile = PoolBonePile
  /\ playerRack = <<>>
  /\ scene = NewScene

NextPool == Shuffle \/ DealToRack \/ PlaceDomino

SpecPool == InitPool /\ [][NextPool]_vars

(***************************************************************************)
(* The game with the placement preview: Scene.updateGhostDomino asks the   *)
(* board, through getPlacementOrientationCallback, how the selected tile   *)
(* would lie on the hovered side.  `last.ret` holds the returned object.   *)
(***************************************************************************)
GetPlacementOrientation ==
  \E dominoData \in PlaceInputs, side \in PlacementSide :
    /\ last' = [op |-> "getPlacementOrientation", outcome |-> "returned",
                tile |-> dominoData, side |-> side,
                ret |-> getPlacementOrientation(dominoData, side)]
    /\ UNCHANGED <<scene, score, pullsRemaining, bonePile, playerRack, board, chain, openEnds, rootIndex,
                   chainDominoes>>

InitPreview ==
  /\ EmptyBoard
  /\ board = <<>>
  /\ score = 0
  /\ pullsRemaining = InitialPulls
  /\ \E draws \in Draws(Len(InitialBonePile), ShuffleDepth) :
       LET dealt == dealToRack(shuffle(InitialBonePile, draws), <<>>, <<>>,
                               Num(PreviewHand))
       IN  /\ bonePile = dealt.pile
           /\ playerRack = dealt.rack
           /\ scene = NewScene

NextPreview == PlaceDomino \/ Clear \/ GetPlacementOrientation

SpecPreview == InitPreview /\ [][NextPreview]_vars

(***************************************************************************)
(* GameState.playTileFromRack, reached through Board.playTile (which only  *)
(* redraws the rack counter).  The rack index is a JavaScript number held  *)
(* in units of 1/Scale; null is returned as NoTile.  `last.index` is the   *)
(* argument, `last.ret` the value returned.                                *)
(***************************************************************************)
\* variant: the argument is not tested for being whole; splice truncates it
playTileFromRack_FractionTaken(rackIndex) ==
  IF rackIndex >= 0 /\ rackIndex < Num(Len(playerRack))
  THEN LET tile == playerRack[(rackIndex \div Scale) + 1]
       IN  /\ playerRack' = splice(playerRack, (rackIndex \div Scale) + 1)
           /\ board' = Append(board, tile)
           /\ last' = [op |-> "playTileFromRack", outcome |-> "played",
                       tile |-> NoTile, side |-> "none", index |-> rackIndex,
                       ret |-> tile]
           /\ UNCHANGED <<scene, score, pullsRemaining, bonePile, chain, openEnds, rootIndex, chainDominoes>>
  ELSE /\ last' = [op |-> "playTileFromRack", outcome |-> "null",
                   tile |-> NoTile, side |-> "none", index |-> rackIndex,
                   ret |-> NoTile]
       /\ UNCHANGED <<scene, score, pullsRemaining, bonePile, playerRack, board, chain, openEnds, rootIndex,
                      chainDominoes>>

playTileFromRack(rackIndex) ==
  IF ~isInteger(rackIndex) \/ rackIndex < 0
  THEN /\ last' = [op |-> "playTileFromRack", outcome |-> "null",
                   tile |-> NoTile, side |-> "none", index |-> rackIndex,
                   ret |-> NoTile]
       /\ UNCHANGED <<scene, score, pullsRemaining, bonePile, playerRack, board, chain, openEnds, rootIndex,
                      chainDominoes>>
  ELSE IF rackIndex < Num(Len(playerRack))
  THEN LET tile == playerRack[(rackIndex \div Scale) + 1]
       IN  /\ playerRack' = splice(playerRack, (rackIndex \div Scale) + 1)
           /\ board' = Append(board, tile)
           /\ last' = [op |-> "playTileFromRack", outcome |-> "played",
                       tile |-> NoTile, side |-> "none", index |-> rackIndex,
                       ret |-> tile]
           /\ UNCHANGED <<scene, score, pullsRemaining, bonePile, chain, openEnds, rootIndex, chainDominoes>>
  ELSE /\ last' = [op |-> "playTileFromRack", outcome |-> "null",
                   tile |-> NoTile, side |-> "none", index |-> rackIndex,
                   ret |-> NoTile]
       /\ UNCHANGED <<scene, score, pullsRemaining, bonePile, playerRack, board, chain, openEnds, rootIndex,
                      chainDominoes>>

\* the numbers a caller may hand in as an index: -1, -0.5, 0, ..., rack size + 0.5
PlayTileFromRack ==
  \E rackIndex \in (0 - Scale)..(Num(Len(playerRack)) + 1) :
    playTileFromRack(rackIndex)

(***************************************************************************)
(* The rack on its own: a newly constructed GameState, and any sequence of *)
(* deals (through either entry point) and plays from the rack.             *)
(***************************************************************************)
NextRack == DealToRack \/ DealTilesToRack \/ PlayTileFromRack

SpecRack == InitPool /\ [][NextRack]_vars

(***************************************************************************)
(* The GameState with its score and pulls: addScore and decrementPulls     *)
(* (reached through Board.addScore and Board.completePull, which also      *)
(* redraw the HUD) and reset.  reset runs initializeBonePile again; the    *)
(* tiles it makes are new objects, known again by their pile positions.    *)
(***************************************************************************)
AddScore ==
  \E points \in 1..MaxScore :
    /\ score + points <= MaxScore
    /\ score' = score + points
    /\ last' = [op |-> "addScore", outcome |-> "added", tile |-> NoTile,
                side |-> "none", ret |-> FALSE]
    /\ UNCHANGED <<bonePile, playerRack, board, pullsRemaining, chain,
                   openEnds, rootIndex, chainDominoes, scene>>

DecrementPulls ==
  /\ pullsRemaining' = IF pullsRemaining > 0 THEN pullsRemaining - 1
                       ELSE pullsRemaining
  /\ last' = [op |-> "decrementPulls", outcome |-> "done", tile |-> NoTile,
              side |-> "none", ret |-> FALSE]
  /\ UNCHANGED <<bonePile, playerRack, board, score, chain, openEnds,
                 rootIndex, chainDominoes, scene>>

\* history kept in `last` by reset: what the state was when it was called
BeforeReset ==
  [shuffled |-> \E i \in 1..Len(bonePile) : bonePile[i].id # i,
   rack |-> Len(playerRack), score |-> score,
   pullsRemaining |-> pullsRemaining]

\* variant: the pulls are not put back
Reset_PullsKept ==
  /\ playerRack' = <<>>
  /\ board' = <<>>
  /\ score' = 0
  /\ bonePile' = PoolBonePile
  /\ last' = [op |-> "reset", outcome |-> "reset", tile |-> NoTile,
              side |-> "none", ret |-> FALSE, before |-> BeforeReset]
  /\ UNCHANGED <<pullsRemaining, chain, openEnds, rootIndex, chainDominoes,
                 scene>>

Reset ==
  /\ playerRack' = <<>>
  /\ board' = <<>>
  /\ score' = 0
  /\ pullsRemaining' = 5
  /\ bonePile' = PoolBonePile
  /\ last' = [op |-> "reset", outcome |-> "reset", tile |-> NoTile,
              side |-> "none", ret |-> FALSE, before |-> BeforeReset]
  /\ UNCHANGED <<chain, openEnds, rootIndex, chainDominoes, scene>>

NextReset ==
  Shuffle \/ DealToRack \/ AddScore \/ DecrementPulls
    \/ Reset

SpecReset == InitPool /\ [][NextReset]_vars

(***************************************************************************)
(* Scene.ts and the Game of part_008: the select / flip / hover / place    *)
(* flow.  Each operator below takes the Scene record and gives the record  *)
(* the method leaves; the board is read in its current state.  A zone      *)
(* keeps, in dominoData, the tile its click callback closes over.          *)
(***************************************************************************)
clearGhostDomino(sc) == [sc EXCEPT !.ghostDomino = NoGhost]

clearPlacementZones(sc) ==
  [clearGhostDomino(sc) EXCEPT !.placementZones = <<>>,
                               !.hoveredZone.live = FALSE]

createPlacementZone(sc, side, isValid, dominoData) ==
  [sc EXCEPT !.placementZones =
     Append(@, [side |-> side, isValid |-> isValid, dominoData |-> dominoData])]

updateGhostDomino(sc, zone) ==
  IF sc.selectedDominoData = NoTile \/ ~zone.isValid
  THEN clearGhostDomino(sc)
  ELSE [sc EXCEPT !.ghostDomino =
          getPlacementOrientation(sc.selectedDominoData, zone.side)]

\* variant: the right zone is given the validity of the left side
updatePlacementZones_RightFromLeft(sc, dominoData) ==
  LET cleared == clearPlacementZones(sc)
  IN  IF Len(chain) = 0
      THEN createPlacementZone(cleared, "center", TRUE, dominoData)
      ELSE LET leftValid == isValidPlacement(dominoData, "left")
           IN  createPlacementZone(
                 createPlacementZone(cleared, "left", leftValid, dominoData),
                 "right", leftValid, dominoData)

\* Game.handleDominoSelected -> Game.updatePlacementZones
updatePlacementZones(sc, dominoData) ==
  LET cleared == clearPlacementZones(sc)
  IN  IF Len(chain) = 0
      THEN createPlacementZone(cleared, "center", TRUE, dominoData)
      ELSE LET leftValid == isValidPlacement(dominoData, "left")
               rightValid == isValidPlacement(dominoData, "right")
           IN  createPlacementZone(
                 createPlacementZone(cleared, "left", leftValid, dominoData),
                 "right", rightValid, dominoData)

selectDomino(sc, dominoMesh) ==
  IF \A i \in 1..Len(sc.rackDominoes) : sc.rackDominoes[i].mesh # dominoMesh
  THEN sc
  ELSE LET dominoObj == sc.rackDominoes[
                          CHOOSE i \in 1..Len(sc.rackDominoes) :
                            sc.rackDominoes[i].mesh = dominoMesh]
       IN  updatePlacementZones(
             [sc EXCEPT !.selectedDomino = dominoMesh,
                        !.selectedDominoData = dominoObj.data,
                        !.selectedDominoFlipped = FALSE],
             dominoObj.data)

\* variant: the placement zones are left standing
deselectDomino_ZonesKept(sc) ==
  IF sc.selectedDomino # NoMesh
  THEN [clearGhostDomino(sc) EXCEPT !.selectedDomino = NoMesh,
                                    !.selectedDominoData = NoTile,
                                    !.selectedDominoFlipped = FALSE,
                                    !.hoveredZone = NoHover]
  ELSE sc

deselectDomino(sc) ==
  IF sc.selectedDomino # NoMesh
  THEN clearPlacementZones(
         [clearGhostDomino(sc) EXCEPT !.selectedDomino = NoMesh,
                                      !.selectedDominoData = NoTile,
                                      !.selectedDominoFlipped = FALSE,
                                      !.hoveredZone = NoHover])
  ELSE sc

\* Game.canFlipDomino
canFlipDomino(dominoData) ==
  IF Len(chain) = 0 THEN TRUE
  ELSE IF dominoData.left = dominoData.right THEN FALSE
  ELSE LET matchesLeft == \/ dominoData.left = openEnds.left
                          \/ dominoData.right = openEnds.left
           matchesRight == \/ dominoData.left = openEnds.right
                           \/ dominoData.right = openEnds.right
       IN  IF matchesLeft /\ matchesRight THEN TRUE
           ELSE IF matchesLeft \/ matchesRight THEN TRUE
           ELSE FALSE

flipSelectedDomino(sc) ==
  IF sc.selectedDominoData = NoTile THEN sc
  ELSE IF ~canFlipDomino(sc.selectedDominoData) THEN sc
  ELSE LET flipped == flipCopy(sc.selectedDominoData)
           rebuilt == updatePlacementZones(
                        [sc EXCEPT !.selectedDominoFlipped = ~@,
                                   !.selectedDominoData = flipped],
                        flipped)
       IN  IF rebuilt.hoveredZone.zone # NoZone
           THEN updateGhostDomino(rebuilt, rebuilt.hoveredZone.zone)
           ELSE rebuilt

\* Game.removeDominoFromRack: findIndex by pips, in either orientation
removeFromVisualRack(rackDominoes, dominoData) ==
  LET same(rd) ==
        \/ (rd.data.left = dominoData.left /\ rd.data.right = dominoData.right)
        \/ (rd.data.left = dominoData.right /\ rd.data.right = dominoData.left)
  IN  IF \E i \in 1..Len(rackDominoes) : same(rackDominoes[i])
      THEN splice(rackDominoes,
                  CHOOSE i \in 1..Len(rackDominoes) :
                    /\ same(rackDominoes[i])
                    /\ \A k \in 1..(i - 1) : ~same(rackDominoes[k]))
      ELSE rackDominoes

(***************************************************************************)
(* The events of the running game.  InitGame is the state new Game()       *)
(* leaves: shuffled pile, GameHand tiles dealt, one visual rack entry per  *)
(* rack tile.  Each action is one DOM event handler of Scene.ts, run to    *)
(* its end with the Game callbacks it calls.  Highlights, drag tracking    *)
(* and hoveredObject only colour meshes and are left out.                  *)
(***************************************************************************)
GameHand == 2

SceneCall(op, outcome) ==
  [op |-> op, outcome |-> outcome, tile |-> NoTile, side |-> "none",
   ret |-> FALSE]

InitGame ==
  /\ EmptyBoard
  /\ board = <<>>
  /\ score = 0
  /\ pullsRemaining = InitialPulls
  /\ \E draws \in Draws(Len(InitialBonePile), ShuffleDepth) :
       LET dealt == dealToRack(shuffle(InitialBonePile, draws), <<>>, <<>>,
                               Num(GameHand))
       IN  /\ bonePile = dealt.pile
           /\ playerRack = dealt.rack
           /\ scene = [NewScene EXCEPT !.rackDominoes = setupRack(dealt.rack)]

BoardUntouched ==
  UNCHANGED <<score, pullsRemaining, bonePile, playerRack, board, chain,
              openEnds, rootIndex, chainDominoes>>

\* handleMouseClick on a placement zone -> Game.handlePlacementZoneClick
handlePlacementZoneClick(zone) ==
  IF ~zone.isValid
  THEN /\ scene' = deselectDomino(scene)
       /\ last' = SceneCall("zoneClick", "invalid")
       /\ BoardUntouched
  ELSE LET actualSide == IF zone.side = "center" THEN "left" ELSE zone.side
       IN  /\ placeDomino(zone.dominoData, actualSide)
           /\ scene' =
                IF last'.ret
                THEN deselectDomino(
                       [scene EXCEPT !.rackDominoes =
                          removeFromVisualRack(@, zone.dominoData)])
                ELSE scene

ClickZone ==
  /\ scene.selectedDomino # NoMesh
  /\ \E k \in 1..Len(scene.placementZones) :
       handlePlacementZoneClick(scene.placementZones[k])

\* handleMouseClick on a rack tile
ClickRack ==
  \E i \in 1..Len(scene.rackDominoes) :
    /\ scene' = selectDomino(scene, scene.rackDominoes[i].mesh)
    /\ last' = SceneCall("select", "selected")
    /\ BoardUntouched

Deselect(op) ==
  /\ scene' = deselectDomino(scene)
  /\ last' = [op |-> op,
              outcome |-> IF scene.selectedDomino # NoMesh
                          THEN "deselected" ELSE "none",
              tile |-> NoTile, side |-> "none", ret |-> FALSE,
              ghostShown |-> scene.ghostDomino # NoGhost]
  /\ BoardUntouched

\* handleMouseClick on neither a zone nor a rack tile
ClickElsewhere == Deselect("clickElsewhere")

\* handleKeyDown, Escape
KeyEscape == Deselect("escape")

\* handleKeyDown, space
KeySpace ==
  /\ scene' = IF scene.selectedDomino # NoMesh
                 /\ scene.selectedDominoData # NoTile
              THEN flipSelectedDomino(scene)
              ELSE scene
  /\ last' = SceneCall("space",
                IF /\ scene.selectedDomino # NoMesh
                   /\ scene.selectedDominoData # NoTile
                   /\ canFlipDomino(scene.selectedDominoData)
                THEN "flipped" ELSE "none")
  /\ BoardUntouched

\* handleMouseMove with the pointer over placement zone k
hoverZone(sc, zone) ==
  IF sc.hoveredZone = [zone |-> zone, live |-> TRUE]
  THEN sc
  ELSE LET hovered == [sc EXCEPT !.hoveredZone = [zone |-> zone, live |-> TRUE]]
       IN  IF zone.isValid
           THEN updateGhostDomino(hovered, zone)
           ELSE clearGhostDomino(hovered)

MouseMoveOverZone ==
  /\ scene.selectedDomino # NoMesh
  /\ \E k \in 1..Len(scene.placementZones) :
       scene' = hoverZone(scene, scene.placementZones[k])
  /\ last' = SceneCall("mousemove", "zone")
  /\ BoardUntouched

\* handleMouseMove with the pointer over no placement zone
MouseMoveElsewhere ==
  /\ scene' = IF /\ scene.selectedDomino # NoMesh
                 /\ Len(scene.placementZones) > 0
                 /\ scene.hoveredZone.zone # NoZone
              THEN clearGhostDomino([scene EXCEPT !.hoveredZone = NoHover])
              ELSE scene
  /\ last' = SceneCall("mousemove", "none")
  /\ BoardUntouched

NextGame ==
  \/ ClickZone
  \/ ClickRack
  \/ ClickElsewhere
  \/ KeyEscape
  \/ KeySpace
  \/ MouseMoveOverZone
  \/ MouseMoveElsewhere

SpecGame == InitGame /\ [][NextGame]_vars

(***************************************************************************)
(* The earlier JavaScript game: main.js with Scene.js and Board.js.  It    *)
(* starts like the later one (shuffle, deal, one visual entry per rack     *)
(* tile).  Board.js knows neither tile types nor rootIndex; the type and   *)
(* src fields of a chain entry are kept as history only.  A DominoData     *)
(* object is one JavaScript object referenced from the rack, the visual    *)
(* rack, the selection and the zone callbacks: an assignment to its        *)
(* fields is seen through every reference, so it is applied to every       *)
(* record that carries the object's id.  No pointer moves in this          *)
(* specification, so hoveredZone stays null.                               *)
(***************************************************************************)
\* Board.js isValidPlacement
isValidPlacementJs(dominoData, side) ==
  IF Len(chain) = 0 THEN TRUE
  ELSE LET openEnd == IF side = "left" THEN openEnds.left ELSE openEnds.right
       IN  dominoData.left = openEnd \/ dominoData.right = openEnd

\* Board.js dominoSpacing = 2.2, in tenths
DOMINO_SPACING == 22

\* Board.js renderChain: x in tenths, doubled so that halves stay whole
renderChainJs(ch) ==
  [k \in 1..Len(ch) |->
     [left |-> ch[k].left, right |-> ch[k].right,
      x2 |-> 2 * (k - 1) * DOMINO_SPACING - (Len(ch) - 1) * DOMINO_SPACING]]

\* Board.js placeDomino
placeDominoJs(dominoData, side) ==
  IF ~isValidPlacementJs(dominoData, side)
  THEN /\ last' = [op |-> "placeDomino", outcome |-> "rejected",
                   tile |-> dominoData, side |-> side, ret |-> FALSE]
       /\ UNCHANGED <<score, pullsRemaining, bonePile, playerRack, board,
                      chain, openEnds, rootIndex, chainDominoes>>
  ELSE LET mutated == applyPlacement(dominoData, side)
           removal == removeDominoFromRack(playerRack, dominoData)
       IN  IF ~removal.removed
           THEN LET back == rollbackPlacementJs(mutated, side)
                IN  /\ chain' = back.chain
                    /\ openEnds' = back.openEnds
                    /\ playerRack' = removal.rack
                    /\ last' = [op |-> "placeDomino", outcome |-> "rolledback",
                                tile |-> dominoData, side |-> side,
                                ret |-> FALSE]
                    /\ UNCHANGED <<score, pullsRemaining, bonePile, board,
                                   rootIndex, chainDominoes>>
           ELSE /\ chain' = mutated.chain
                /\ openEnds' = mutated.openEnds
                /\ playerRack' = removal.rack
                /\ chainDominoes' = renderChainJs(mutated.chain)
                /\ last' = [op |-> "placeDomino", outcome |-> "placed",
                            tile |-> dominoData, side |-> side, ret |-> TRUE]
                /\ UNCHANGED <<score, pullsRemaining, bonePile, board,
                               rootIndex>>

\* main.js handleDominoSelected -> updatePlacementZones
updatePlacementZonesJs(sc, dominoData) ==
  LET cleared == clearPlacementZones(sc)
  IN  IF Len(chain) = 0
      THEN createPlacementZone(cleared, "center", TRUE, dominoData)
      ELSE LET leftValid == isValidPlacementJs(dominoData, "left")
               rightValid == isValidPlacementJs(dominoData, "right")
           IN  createPlacementZone(
                 createPlacementZone(cleared, "left", leftValid, dominoData),
                 "right", rightValid, dominoData)

\* Scene.js selectDomino
selectDominoJs(sc, dominoMesh) ==
  IF \A i \in 1..Len(sc.rackDominoes) : sc.rackDominoes[i].mesh # dominoMesh
  THEN sc
  ELSE LET dominoObj == sc.rackDominoes[
                          CHOOSE i \in 1..Len(sc.rackDominoes) :
                            sc.rackDominoes[i].mesh = dominoMesh]
       IN  updatePlacementZonesJs(
             [sc EXCEPT !.selectedDomino = dominoMesh,
                        !.selectedDominoData = dominoObj.data,
                        !.selectedDominoFlipped = FALSE],
             dominoObj.data)

\* main.js removeDominoFromRack: findIndex by rd.data === dominoData
removeFromVisualRackJs(rackDominoes, dominoData) ==
  IF \E i \in 1..Len(rackDominoes) : rackDominoes[i].data = dominoData
  THEN splice(rackDominoes,
              CHOOSE i \in 1..Len(rackDominoes) :
                /\ rackDominoes[i].data = dominoData
                /\ \A k \in 1..(i - 1) : rackDominoes[k].data # dominoData)
  ELSE rackDominoes

\* the object after [data.left, data.right] = [data.right, data.left]
swapPips(d) == [d EXCEPT !.left = d.right, !.right = d.left]

\* the same assignment seen through a reference to object id
seenThrough(d, id) == IF d.id = id THEN swapPips(d) ELSE d

\* Scene.js flipSelectedDomino; main.js sets no canFlipDominoCallback
flipSelectedDominoJs(sc) ==
  IF sc.selectedDominoData = NoTile THEN sc
  ELSE LET id == sc.selectedDominoData.id
           swapped ==
             [sc EXCEPT
                !.selectedDominoFlipped = ~@,
                !.selectedDominoData = swapPips(@),
                !.rackDominoes =
                   [i \in 1..Len(@) |->
                      [@[i] EXCEPT !.data = seenThrough(@, id)]]]
           rebuilt == updatePlacementZonesJs(swapped, swapped.selectedDominoData)
       IN  IF rebuilt.hoveredZone.zone # NoZone
           THEN updateGhostDomino(rebuilt, rebuilt.hoveredZone.zone)
           ELSE rebuilt

\* main.js handlePlacementZoneClick
handlePlacementZoneClickJs(zone) ==
  IF ~zone.isValid
  THEN /\ scene' = deselectDomino(scene)
       /\ last' = SceneCall("zoneClick", "invalid")
       /\ BoardUntouched
  ELSE LET actualSide == IF zone.side = "center" THEN "left" ELSE zone.side
       IN  /\ placeDominoJs(zone.dominoData, actualSide)
           /\ scene' =
                IF last'.ret
                THEN deselectDomino(
                       [scene EXCEPT !.rackDominoes =
                          removeFromVisualRackJs(@, zone.dominoData)])
                ELSE scene

ClickZoneJs ==
  /\ scene.selectedDomino # NoMesh
  /\ \E k \in 1..Len(scene.placementZones) :
       handlePlacementZoneClickJs(scene.placementZones[k])

ClickRackJs ==
  \E i \in 1..Len(scene.rackDominoes) :
    /\ scene' = selectDominoJs(scene, scene.rackDominoes[i].mesh)
    /\ last' = SceneCall("select", "selected")
    /\ BoardUntouched

KeySpaceJs ==
  LET acts == scene.selectedDomino # NoMesh /\ scene.selectedDominoData # NoTile
  IN  /\ scene' = IF acts THEN flipSelectedDominoJs(scene) ELSE scene
      /\ playerRack' =
           IF acts
           THEN [i \in 1..Len(playerRack) |->
                   seenThrough(playerRack[i], scene.selectedDominoData.id)]
           ELSE playerRack
      /\ last' = SceneCall("space", IF acts THEN "flipped" ELSE "none")
      /\ UNCHANGED <<score, pullsRemaining, bonePile, board, chain, openEnds,
                     rootIndex, chainDominoes>>

NextJs ==
  \/ ClickZoneJs
  \/ ClickRackJs
  \/ ClickElsewhere
  \/ KeyEscape
  \/ KeySpaceJs

SpecJs == InitGame /\ [][NextJs]_vars

(***************************************************************************)
(* Properties.                                                             *)
(***************************************************************************)
\* every tile value the properties on isValidPlacement range over
ProbeTiles ==
  [id : {FreshId}, left : SPECIAL_TILE_PIP_VALUE..MaxPip,
   right : SPECIAL_TILE_PIP_VALUE..MaxPip, type : DominoType]

\* the open end of a side, in the current state
EndOf(side) == IF side = "left" THEN openEnds.left ELSE openEnds.right

\* the step is a placeDomino call that returned true
Placed == last'.op = "placeDomino" /\ last'.outcome = "placed"

RackIds == {playerRack[i].id : i \in 1..Len(playerRack)}

\* C1: for a non-wildcard tile and a side in {left, right}, isValidPlacement
\* is true on an empty chain, and on a non-empty chain it is true exactly
\* when the left or the right pip equals the open end of that side.
C1_MatchingRule ==
  \A T \in ProbeTiles, side \in validSides :
    ~isWildcardType(T.type) =>
      (isValidPlacement(T, side) <=>
         (Len(chain) = 0 \/ T.left = EndOf(side) \/ T.right = EndOf(side)))

\* placeDomino has just rejected a non-wildcard rack tile on a non-empty
\* chain while another non-wildcard rack tile is valid on that side
C1_Witness ==
  /\ last.op = "placeDomino" /\ last.outcome = "rejected"
  /\ last.side \in validSides
  /\ ~isWildcardType(last.tile.type)
  /\ Len(chain) > 0
  /\ \E i \in 1..Len(playerRack) :
       /\ ~isWildcardType(playerRack[i].type)
       /\ isValidPlacement(playerRack[i], last.side)

\* C2: on a non-empty chain every tile of a wildcard kind (wild, crusher,
\* cheater, spinner) is valid on the left and on the right, whatever its
\* pips and the open ends.
C2_WildcardUniversal ==
  \A T \in ProbeTiles, side \in validSides :
    (Len(chain) > 0 /\ isWildcardType(T.type)) => isValidPlacement(T, side)

\* C3: a successful placement of a non-wildcard tile T on a non-empty chain
\* makes the pip of T that differs from the old open end of that side the
\* new open end, turns the other pip inward, and leaves T as it is when both
\* pips equal the old open end.
C3_Orientation ==
  [][(Placed /\ Len(chain) > 0 /\ ~isWildcardType(last'.tile.type)) =>
       LET T == last'.tile
           side == last'.side
           end == EndOf(side)
           new == IF side = "left" THEN chain'[1] ELSE chain'[Len(chain')]
           outward == IF side = "left" THEN new.left ELSE new.right
           inward == IF side = "left" THEN new.right ELSE new.left
       IN  /\ (IF side = "left" THEN openEnds'.left ELSE openEnds'.right) = outward
           /\ inward = end
           /\ T.left # end => outward = T.left
           /\ T.right # end => outward = T.right
           /\ (T.left = end /\ T.right = end) =>
                (new.left = T.left /\ new.right = T.right)
           /\ new.type = T.type]_vars

\* a non-double, non-wildcard tile was placed on the left of a non-empty
\* chain and was reoriented
C3_Witness ==
  /\ last.op = "placeDomino" /\ last.outcome = "placed" /\ last.side = "left"
  /\ Len(chain) >= 2
  /\ ~isWildcardType(last.tile.type)
  /\ last.tile.left # last.tile.right
  /\ chain[1].left = last.tile.right
  /\ chain[1].right = last.tile.left

\* C4: with an empty chain both open ends are null; otherwise the left open
\* end is the left pip of the first chain tile and the right open end is the
\* right pip of the last chain tile.
C4_OpenEndsMatchChain ==
  IF Len(chain) = 0
  THEN openEnds = [left |-> NullPip, right |-> NullPip]
  ELSE /\ openEnds.left = chain[1].left
       /\ openEnds.right = chain[Len(chain)].right

\* a placement on a chain of two or more tiles has just been rolled back
C4_Witness ==
  /\ last.op = "placeDomino" /\ last.outcome = "rolledback"
  /\ Len(chain) >= 2
  /\ chain[1].left # chain[Len(chain)].right

\* C5: a placeDomino call that passes validation and whose rack removal
\* fails returns false and leaves chain, open ends, root index and rack as
\* they were.
C5_RollbackAtomic ==
  [][(/\ last'.op = "placeDomino"
      /\ ~placementRejected(last'.tile, last'.side)
      /\ \A i \in 1..Len(playerRack) : playerRack[i].id # last'.tile.id) =>
       /\ last'.ret = FALSE
       /\ UNCHANGED <<chain, openEnds, rootIndex, playerRack, bonePile,
                      chainDominoes>>]_vars

\* a left placement of a tile that is not in the rack was rolled back on a
\* non-empty chain
C5_Witness ==
  /\ last.op = "placeDomino" /\ last.outcome = "rolledback"
  /\ last.side = "left"
  /\ Len(chain) >= 1
  /\ last.tile.id \notin RackIds

\* C6: a placeDomino call on a side in {left, right} for which
\* isValidPlacement is false returns false and changes neither chain, open
\* ends, root index nor rack.
C6_RejectedUnchanged ==
  [][(/\ last'.op = "placeDomino"
      /\ last'.side \in validSides
      /\ ~isValidPlacement(last'.tile, last'.side)) =>
       /\ last'.ret = FALSE
       /\ UNCHANGED <<chain, openEnds, rootIndex, playerRack, bonePile,
                      chainDominoes>>]_vars

\* an invalid placement of a rack tile was rejected and the tile is still
\* in the rack
C6_Witness ==
  /\ last.op = "placeDomino" /\ last.outcome = "rejected"
  /\ last.side \in validSides
  /\ Len(chain) > 0
  /\ last.tile.id \in RackIds

\* C7: every generated tile is in exactly one of bone pile, rack and chain
\* (the chain holding its copy, possibly reoriented), with its pips and type.
C7_Partition ==
  LET ids == [i \in 1..Len(bonePile) |-> bonePile[i].id]
               \o [i \in 1..Len(playerRack) |-> playerRack[i].id]
               \o [i \in 1..Len(chain) |-> chain[i].src]
      n == Len(PoolBonePile)
  IN  /\ Len(ids) = n
      /\ \A k \in 1..n : \E i \in 1..Len(ids) : ids[i] = k
      /\ \A i \in 1..Len(bonePile) : bonePile[i] = PoolBonePile[bonePile[i].id]
      /\ \A i \in 1..Len(playerRack) :
           playerRack[i] = PoolBonePile[playerRack[i].id]
      /\ \A i \in 1..Len(chain) :
           LET t == PoolBonePile[chain[i].src]
           IN  /\ chain[i].type = t.type
               /\ \/ (chain[i].left = t.left /\ chain[i].right = t.right)
                  \/ (chain[i].left = t.right /\ chain[i].right = t.left)

\* a shuffle has just run with tiles in the pile, in the rack and on the board
C7_Witness ==
  /\ last.op = "shuffle"
  /\ Len(bonePile) >= 2
  /\ Len(playerRack) >= 1
  /\ Len(chain) >= 1

\* C8: right after a successful placement the layout position of
\* chain[rootIndex] is 0, in the computed positions and in the rendered chain.
C8_RootAtOrigin ==
  (last.op = "placeDomino" /\ last.outcome = "placed") =>
    /\ rootIndex \in 0..(Len(chain) - 1)
    /\ Len(calculateChainPositions(chain, rootIndex)) = Len(chain)
    /\ calculateChainPositions(chain, rootIndex)[rootIndex + 1] = 0
    /\ Len(chainDominoes) = Len(chain)
    /\ chainDominoes[rootIndex + 1].x = 0

\* a placement succeeded and the root has tiles on both sides
C8_Witness ==
  /\ last.op = "placeDomino" /\ last.outcome = "placed"
  /\ rootIndex >= 1
  /\ Len(chain) > rootIndex + 1

\* C9: with a non-empty chain the root index is a chain index and the tile
\* there is the first tile placed since the last clear: the first placement
\* sets it to 0, a successful left placement adds one, a successful right
\* placement keeps it, and no other call moves it.
C9_RootIndex ==
  /\ [](Len(chain) > 0 => rootIndex \in 0..(Len(chain) - 1))
  /\ [][/\ (Placed /\ Len(chain) = 0) =>
             (rootIndex' = 0 /\ chain'[1].src = last'.tile.id)
        /\ (Placed /\ Len(chain) > 0 /\ last'.side = "left") =>
             rootIndex' = rootIndex + 1
        /\ (Placed /\ Len(chain) > 0 /\ last'.side = "right") =>
             rootIndex' = rootIndex
        /\ (Len(chain) > 0 /\ Len(chain') > 0) =>
             chain'[rootIndex' + 1] = chain[rootIndex + 1]
        /\ (~Placed /\ Len(chain') > 0) => rootIndex' = rootIndex]_vars

\* a right placement succeeded after a left placement had shifted the root
C9_Witness ==
  /\ last.op = "placeDomino" /\ last.outcome = "placed" /\ last.side = "right"
  /\ rootIndex = 1
  /\ Len(chain) = 3

\* C10: a successful placement of B removes from the rack the object B and
\* nothing else, and the other rack tiles keep their order.
C10_IdentityRemoval ==
  [][Placed =>
       \E i \in 1..Len(playerRack) :
         /\ playerRack[i].id = last'.tile.id
         /\ playerRack[i] = last'.tile
         /\ Len(playerRack') = Len(playerRack) - 1
         /\ \A k \in 1..Len(playerRack') :
              playerRack'[k] = IF k < i THEN playerRack[k] ELSE playerRack[k + 1]]_vars

\* B was placed out of a rack of three or more while another rack tile with
\* the same pips and type stays in the rack
C10_Witness ==
  /\ last.op = "placeDomino" /\ last.outcome = "placed"
  /\ Len(playerRack) >= 2
  /\ \E i \in 1..Len(playerRack) :
       /\ playerRack[i].left = last.tile.left
       /\ playerRack[i].right = last.tile.right
       /\ playerRack[i].type = last.tile.type

\* C11: a successful placeDomino grows the chain by exactly one tile, put at
\* index 0 for a left placement and at the end for a right placement (the sole
\* element on an empty chain); every tile placed before keeps its pips, its
\* type and its place relative to the others.
C11_GrowsByOne ==
  [][Placed =>
       /\ Len(chain') = Len(chain) + 1
       /\ IF Len(chain) = 0
          THEN chain'[1].src = last'.tile.id
          ELSE IF last'.side = "left"
          THEN /\ chain'[1].src = last'.tile.id
               /\ \A i \in 1..Len(chain) : chain'[i + 1] = chain[i]
          ELSE /\ chain'[Len(chain')].src = last'.tile.id
               /\ \A i \in 1..Len(chain) : chain'[i] = chain[i]]_vars

\* a left placement has gone in front of a chain of two tiles or more
C11_Witness ==
  /\ last.op = "placeDomino" /\ last.outcome = "placed" /\ last.side = "left"
  /\ Len(chain) >= 3
  /\ chain[1].src = last.tile.id

\* C12: getPlacementOrientation(T, side) changes no state however often it is
\* called, returns T's pips unchanged on an empty chain, and for side left or
\* right returns exactly the pips that a successful placeDomino(T, side) in
\* the same state inserts into the chain.
C12_PreviewMatchesPlacement ==
  [][/\ last'.op = "getPlacementOrientation" =>
          /\ UNCHANGED <<bonePile, playerRack, board, chain, openEnds,
                         rootIndex, chainDominoes>>
          /\ Len(chain) = 0 =>
                /\ last'.ret.left = last'.tile.left
                /\ last'.ret.right = last'.tile.right
     /\ Placed /\ last'.side \in validSides =>
          LET preview == getPlacementOrientation(last'.tile, last'.side)
              inserted == IF last'.side = "left" /\ Len(chain) > 0
                          THEN chain'[1] ELSE chain'[Len(chain')]
          IN  /\ inserted.left = preview.left
              /\ inserted.right = preview.right
              /\ inserted.type = preview.type]_vars

\* a preview on a non-empty chain that turned the tile round, asked twice
C12_Witness ==
  /\ last.op = "getPlacementOrientation"
  /\ Len(chain) > 0
  /\ last.side \in validSides
  /\ last.tile.left # last.tile.right
  /\ last.ret.left = last.tile.right /\ last.ret.right = last.tile.left

\* C13: dealToRack(count) with a non-negative whole count moves exactly
\* k = min(count, pile size) tiles: the returned sequence is the last k pile
\* tiles in reverse pile order, the same tiles are appended to the end of the
\* rack in that order, the pile shrinks by k with the rest in order, and no
\* error is signalled when the pile holds fewer tiles than asked for.
C13_DealMovesLastK ==
  [][last'.op = "dealToRack" /\ last'.count >= 0 /\ isInteger(last'.count) =>
       LET n == Len(bonePile)
           asked == last'.count \div Scale
           k == IF asked < n THEN asked ELSE n
       IN  /\ last'.outcome = "dealt"
           /\ Len(last'.ret) = k
           /\ \A m \in 1..k : last'.ret[m] = bonePile[n - m + 1]
           /\ playerRack' = playerRack \o last'.ret
           /\ bonePile' = SubSeq(bonePile, 1, n - k)]_vars

\* two tiles were dealt onto a non-empty rack and the pile is not exhausted
C13_Witness ==
  /\ last.op = "dealToRack" /\ last.count = Num(2)
  /\ Len(last.ret) = 2
  /\ Len(playerRack) > 2
  /\ Len(bonePile) > 0

\* C14: both deal entry points, GameState.dealToRack and its wrapper
\* Board.dealTilesToRack, signal an error and leave pile and rack unchanged
\* when the count is negative or not whole.
C14_InvalidCountSignalsError ==
  [][/\ last'.op \in {"dealToRack", "dealTilesToRack"}
     /\ (last'.count < 0 \/ ~isInteger(last'.count))
     => /\ last'.outcome = "threw"
        /\ UNCHANGED <<bonePile, playerRack>>]_vars

\* C16: playTileFromRack(index) removes and returns the rack tile at that
\* position, the others keeping their order, when index is whole and
\* 0 <= index < rack size; for a negative, fractional or too large index it
\* returns null and changes neither the rack nor any other state.
C16_PlayFromRack ==
  [][last'.op = "playTileFromRack" =>
       LET index == last'.index
           n == Len(playerRack)
       IN  IF isInteger(index) /\ 0 <= index /\ index < Num(n)
           THEN LET i == (index \div Scale) + 1
                IN  /\ last'.ret = playerRack[i]
                    /\ Len(playerRack') = n - 1
                    /\ \A m \in 1..(i - 1) : playerRack'[m] = playerRack[m]
                    /\ \A m \in i..(n - 1) : playerRack'[m] = playerRack[m + 1]
           ELSE /\ last'.ret = NoTile
                /\ UNCHANGED <<bonePile, playerRack, board, chain, openEnds,
                               rootIndex, chainDominoes>>]_vars

\* the second of three or more rack tiles was played
C16_Witness ==
  /\ last.op = "playTileFromRack" /\ last.outcome = "played"
  /\ last.index = Num(1)
  /\ Len(playerRack) >= 2
  /\ board # <<>> /\ last.ret = board[Len(board)]

\* how often tile t occurs in the sequence seq
Occurrences(seq, t) == Cardinality({i \in 1..Len(seq) : seq[i] = t})

\* C15: shuffle terminates for every pile size (0 and 1 included), leaves the
\* pile a permutation of what it was (same tiles, same count) whatever index
\* j in [0, i] each iteration draws, and touches neither rack nor chain.
C15_ShufflePermutes ==
  /\ [](Len(bonePile) <= MaxShufflePile => ENABLED Shuffle)
  /\ [][last'.op = "shuffle" =>
          /\ Len(bonePile') = Len(bonePile)
          /\ \A i \in 1..Len(bonePile) :
               Occurrences(bonePile', bonePile[i]) =
                 Occurrences(bonePile, bonePile[i])
          /\ UNCHANGED <<playerRack, board, chain, openEnds, rootIndex,
                         chainDominoes>>]_vars

\* a shuffle of three tiles or more that moved the top tile, rack not empty
C15_Witness ==
  /\ last.op = "shuffle"
  /\ Len(bonePile) >= 3
  /\ playerRack # <<>>
  /\ bonePile[Len(bonePile)].id # Len(bonePile)

\* shuffles of the empty pile and of a pile of one tile
C15_EmptyPileShuffled == last.op = "shuffle" /\ Len(bonePile) = 0
C15_SinglePileShuffled == last.op = "shuffle" /\ Len(bonePile) = 1

\* C17: for a side other than left and right (center), isValidPlacement
\* returns false and placeDomino returns false; neither raises, and the chain,
\* the open ends, the root index and the rack stay as they were, on the empty
\* chain and on a non-empty one.
C17_OtherSideRefused ==
  /\ [](\A T \in ProbeTiles, side \in PlacementSide \ validSides :
          ~isValidPlacement(T, side))
  /\ [][last'.op = "placeDomino" /\ last'.side \notin validSides =>
          /\ last'.outcome = "rejected"
          /\ last'.ret = FALSE
          /\ UNCHANGED <<bonePile, playerRack, board, chain, openEnds,
                         rootIndex, chainDominoes>>]_vars

\* a tile that fits the left end was offered at the centre of a non-empty chain
C17_Witness ==
  /\ last.op = "placeDomino" /\ last.side = "center"
  /\ last.outcome = "rejected"
  /\ Len(chain) > 0
  /\ isValidPlacement(last.tile, "left")

\* C18: Board.clear, in any reachable state, returns the chain engine to the
\* state of a newly constructed board: empty chain, both open ends null, the
\* root index at its empty-chain value; afterwards every tile is again valid
\* on either side.
C18_ClearResets ==
  last.op = "clear" =>
    /\ chain = <<>>
    /\ chainDominoes = <<>>
    /\ openEnds = [left |-> NullPip, right |-> NullPip]
    /\ rootIndex = NoRoot
    /\ \A T \in ProbeTiles, side \in validSides : isValidPlacement(T, side)

\* the board was cleared after at least two tiles had been placed
C18_Witness ==
  /\ last.op = "clear"
  /\ Len(playerRack) + 2 <= HandSize

\* half-width of a tile, a double being a tile of two equal pips that are not
\* the special value
tileHalfWidth(d) ==
  IF isDoubleTile(d) THEN DOUBLE_HALF_WIDTH ELSE REGULAR_HALF_WIDTH

\* C19: for every reachable non-empty chain the layout positions increase
\* strictly with the chain index, and neighbours differ by the half-width of
\* the left one plus the half-width of the right one plus the gap (5 for a
\* double, 11 otherwise, gap 1), on both sides of the root.
C19_NeighbourSpacing ==
  LET positions == calculateChainPositions(chain, rootIndex)
  IN  \A i \in 1..(Len(chain) - 1) :
        /\ positions[i] < positions[i + 1]
        /\ positions[i + 1] - positions[i] =
             tileHalfWidth(chain[i]) + tileHalfWidth(chain[i + 1]) + DOMINO_GAP

\* C20: a tile whose two pips are both the special value is not laid out as
\* a double: calculateChainPositions and getPlacementPositions give it the
\* regular half-width.
C20_SpecialTileRegularWidth ==
  LET positions == calculateChainPositions(chain, rootIndex)
      anchors == getPlacementPositions(chain, rootIndex)
      n == Len(chain)
      special(d) == d.left = SPECIAL_TILE_PIP_VALUE /\ d.right = SPECIAL_TILE_PIP_VALUE
  IN  /\ \A i \in 1..(n - 1) :
           special(chain[i]) \/ special(chain[i + 1]) =>
             positions[i + 1] - positions[i] =
               tileHalfWidth(chain[i]) + tileHalfWidth(chain[i + 1]) + DOMINO_GAP
      /\ n > 0 /\ special(chain[1]) =>
           anchors.leftX = positions[1] - REGULAR_HALF_WIDTH - PLACEMENT_CLEARANCE
      /\ n > 0 /\ special(chain[n]) =>
           anchors.rightX = positions[n] + REGULAR_HALF_WIDTH + PLACEMENT_CLEARANCE

\* C22: reset, called in any state, leaves the bone pile equal to the fixed
\* starting tile set in generation order (the standard tiles with
\* 0 <= left <= right <= highest pip, then the fixed special tiles), the rack
\* empty, the score 0 and the pulls at their initial value; a second call
\* gives the same state as the first.
C22_ResetRestores ==
  /\ [](last.op = "reset" =>
          LET n == ((PoolMaxPip + 1) * (PoolMaxPip + 2)) \div 2
              before(i, j) ==
                \/ bonePile[i].left < bonePile[j].left
                \/ /\ bonePile[i].left = bonePile[j].left
                   /\ bonePile[i].right < bonePile[j].right
          IN  /\ Len(bonePile) = n + PoolSpecial
              /\ \A i \in 1..n :
                   /\ bonePile[i].type = "standard"
                   /\ 0 <= bonePile[i].left
                   /\ bonePile[i].left <= bonePile[i].right
                   /\ bonePile[i].right <= PoolMaxPip
              /\ \A i \in 1..(n - 1) : before(i, i + 1)
              /\ \A i \in 1..PoolSpecial :
                   /\ bonePile[n + i].type = SpecialTypes[i]
                   /\ bonePile[n + i].left = SPECIAL_TILE_PIP_VALUE
                   /\ bonePile[n + i].right = SPECIAL_TILE_PIP_VALUE
              /\ playerRack = <<>>
              /\ score = 0
              /\ pullsRemaining = InitialPulls)
  /\ [][last.op = "reset" /\ last'.op = "reset" =>
          UNCHANGED <<bonePile, playerRack, board, score, pullsRemaining>>]_vars

\* reset was called with the pile shuffled, tiles dealt, a score made and a
\* pull used
C22_Witness ==
  /\ last.op = "reset"
  /\ last.before.shuffled /\ last.before.rack > 0
  /\ last.before.score > 0 /\ last.before.pullsRemaining < InitialPulls

(***************************************************************************)
(* C25: in the game, a click on a placement zone that was created valid    *)
(* for the selected tile places the tile: placeDomino returns true, the    *)
(* chain grows by one and the tile leaves the rack, also when the tile     *)
(* was flipped one or more times before the click.                         *)
(***************************************************************************)
C25_ValidZoneClickPlaces ==
  [][last'.op = "placeDomino" =>
       /\ last'.ret = TRUE
       /\ Len(chain') = Len(chain) + 1
       /\ Len(playerRack') = Len(playerRack) - 1]_vars

(***************************************************************************)
(* C26: after every successful placement through a zone click the visual   *)
(* rack holds, entry by entry and by the identity of each entry's data,    *)
(* the tiles of the player rack in the same order, also when two rack      *)
(* tiles carry the same pips.                                              *)
(***************************************************************************)
C26_VisualRackMatchesRack ==
  (last.op = "placeDomino" /\ last.ret) =>
    /\ Len(scene.rackDominoes) = Len(playerRack)
    /\ \A i \in 1..Len(playerRack) :
         scene.rackDominoes[i].data.id = playerRack[i].id

(***************************************************************************)
(* C23: a double is never allowed to flip.  In every board state           *)
(* canFlipDomino answers false for a selected tile whose two pips are      *)
(* equal, and a press of space on such a tile leaves the selected tile     *)
(* data, and the flipped flag, as they were.                               *)
(***************************************************************************)
C23_DoubleNeverFlips ==
  /\ [](scene.selectedDominoData # NoTile
          /\ scene.selectedDominoData.left = scene.selectedDominoData.right
          => ~canFlipDomino(scene.selectedDominoData))
  /\ [][last'.op = "space"
          /\ scene.selectedDominoData.left = scene.selectedDominoData.right
          => /\ scene'.selectedDominoData = scene.selectedDominoData
             /\ scene'.selectedDominoFlipped = scene.selectedDominoFlipped]_vars

(***************************************************************************)
(* C27: in every state of the game reached through select, flip, deselect  *)
(* and zone clicks, the isValid of each displayed left or right zone is    *)
(* what isValidPlacement answers now for the selected tile data and that   *)
(* side.                                                                   *)
(***************************************************************************)
C27_ZoneValidityCurrent ==
  \A k \in 1..Len(scene.placementZones) :
    LET zone == scene.placementZones[k]
    IN  zone.side \in {"left", "right"} =>
          zone.isValid = isValidPlacement(scene.selectedDominoData, zone.side)

C27_Witness ==
  /\ Len(chain) > 0
  /\ scene.selectedDominoData # NoTile
  /\ \E k \in 1..Len(scene.placementZones) :
       /\ scene.placementZones[k].side \in {"left", "right"}
       /\ scene.placementZones[k].isValid
  /\ \E k \in 1..Len(scene.placementZones) :
       /\ scene.placementZones[k].side \in {"left", "right"}
       /\ ~scene.placementZones[k].isValid

(***************************************************************************)
(* C30: after every Scene event handler selectedDomino is null exactly     *)
(* when selectedDominoData is null; with nothing selected the flipped      *)
(* flag is false and there are no placement zones, no hovered zone and no  *)
(* ghost.  deselectDomino with nothing selected changes nothing and does   *)
(* not fire the deselected callback.                                       *)
(***************************************************************************)
C30_SelectionConsistent ==
  /\ []((scene.selectedDomino = NoMesh <=> scene.selectedDominoData = NoTile)
         /\ (scene.selectedDomino = NoMesh =>
               /\ ~scene.selectedDominoFlipped
               /\ scene.placementZones = <<>>
               /\ scene.hoveredZone = NoHover
               /\ scene.ghostDomino = NoGhost))
  /\ [][last'.op \in {"clickElsewhere", "escape"}
          /\ scene.selectedDomino = NoMesh
          => scene' = scene /\ last'.outcome = "none"]_vars

C30_Witness ==
  /\ last.op \in {"clickElsewhere", "escape"}
  /\ last.outcome = "deselected"
  /\ last.ghostShown
  /\ scene.selectedDomino = NoMesh
  /\ Len(chain) > 0

StandardProbes ==
  {[id |-> FreshId, left |-> a, right |-> b, type |-> "standard"] :
     a \in 0..6, b \in 0..6}

endTile(side) == IF side = "left" THEN chain[1] ELSE chain[Len(chain)]

C29_WildEndRefusesStandard ==
  \A side \in validSides :
    (Len(chain) > 0 /\ endTile(side).type = "wild") =>
      /\ openEnds[side] = SPECIAL_TILE_PIP_VALUE
      /\ \A T \in StandardProbes : ~isValidPlacement(T, side)

C29_Witness ==
  /\ Len(chain) >= 2
  /\ last.op = "placeDomino"
  /\ last.outcome = "placed"
  /\ last.tile.type = "wild"
  /\ last.side = "right"
  /\ endTile("right").type = "wild"
  /\ endTile("left").type = "standard"

(***************************************************************************)
(* C24: the two ways of undoing a placement whose rack removal failed,     *)
(* restoring the saved open ends (Board.ts) and recomputing the end from   *)
(* the chain that remains (Board.js), compared on the same mutated board.  *)
(* C24_RollbacksDifferOnShortChain states that they leave a different      *)
(* chain or different open ends when the chain holds at most one tile;     *)
(* C24_RollbacksAgree that they leave the same chain and the same open     *)
(* ends after every such placement, whatever the length of the chain.      *)
(***************************************************************************)
rolledBackJs == rollbackPlacementJs(applyPlacement(last'.tile, last'.side),
                                    last'.side)

C21_RackTilesKeepPips ==
  [][\A i \in 1..Len(playerRack) : \A j \in 1..Len(playerRack') :
       playerRack'[j].id = playerRack[i].id =>
         /\ playerRack'[j].left = playerRack[i].left
         /\ playerRack'[j].right = playerRack[i].right]_vars
====
